---- MODULE Spec2Model ----
(***************************************************************************)
(* Model of the two Modbus reconnaissance programs of the repository:      *)
(*   "toolkit" = src/modbus_toolkit.py                                     *)
(*   "recon"   = src/modbusrecon_toolkit.py                                *)
(* Three specifications share the variables:                               *)
(*   Spec      one run of main(): argument handling, the subnet sweep on   *)
(*             the thread pool, the sequential fingerprint loop;           *)
(*   SpecFn    single calls of the probing functions on drawn inputs;      *)
(*   SpecPool  the thread pool of scan_subnet at its real width, workers   *)
(*             counted instead of told apart.                              *)
(* Python values: str is a TLA+ string, a list is a sequence, a dict with  *)
(* fixed keys is a record or a function on its keys, and a value that may  *)
(* be None is a record tagged by its field py.                             *)
(***************************************************************************)
EXTENDS Integers, Sequences, FiniteSets, TLC

\* ---------------------------------------------------------------- bounds
\* Usable hosts of the swept subnet (Spec).
NumHosts == 2
\* Hosts queued on the pool beyond its width (SpecPool).
ExtraHosts == 2
\* Largest start address, end address, step and iteration count drawn for the
\* scanners (SpecFn).
MaxStart == 1
MaxEnd == 4
MaxStep == 2
MaxIter == 2
\* Largest count of values per fuzz round and of identification fields (SpecFn).
MaxCount == 2
MaxFields == 2
\* Largest number of host bits of the networks whose expansion is computed.
MaxHostBits == 3

\* ---------------------------------------------------- program constants
max_workers == 50
DefaultPort == 502
FallbackStart == 0
FallbackEnd == 10
FallbackStep == 2
RecvSize == 1024
FuzzAddrMax == 120
WordMax == 65535

\* ------------------------------------------------------- Python values
None == [py |-> "None"]
PyStr(s) == [py |-> "str", s |-> s]
PyTuple(a, b) == [py |-> "tuple", t0 |-> a, t1 |-> b]
PyDict(d) == [py |-> "dict", d |-> d]

\* Python's truth value of an object: None and "" are false, a non-empty
\* string, a 2-tuple, a client object and a non-empty dict are true.
Truthy(v) ==
    CASE v.py = "None" -> FALSE
      [] v.py = "str" -> v.s # ""
      [] v.py = "dict" -> DOMAIN v.d # {}
      [] OTHER -> TRUE

\* A variant that takes end as the last address instead of the first excluded.
Range_inclusive(start, end, step) ==
    LET n == IF end >= start THEN (end - start + step) \div step ELSE 0
    IN  [i \in 1..n |-> start + (i - 1) * step]

\* range(start, end, step) for step > 0, as a sequence.
Range(start, end, step) ==
    LET n == IF end > start THEN (end - start + step - 1) \div step ELSE 0
    IN  [i \in 1..n |-> start + (i - 1) * step]

\* ------------------------------------------------- device responses
\* What a pymodbus call can do: answer, answer with an exception response
\* (isError()), or raise.
ExcMsgs == {"timed out"}
Raises == {[kind |-> "raise", msg |-> m] : m \in ExcMsgs}
ErrorResp == [kind |-> "error"]
isError(response) == response.kind = "error"
raised(response) == response.kind = "raise"

RegisterResponses(count) ==
    {[kind |-> "ok", registers |-> [i \in 1..count |-> 0]]} \cup {ErrorResp} \cup Raises
CoilResponses(count) ==
    {[kind |-> "ok", bits |-> [i \in 1..count |-> TRUE]]} \cup {ErrorResp} \cup Raises
WriteResponses == {[kind |-> "ok"]} \cup {ErrorResp} \cup Raises
ConnectOutcomes == {"ok", "refused", "raise"}

\* ---------------------------------------------------------- strings
UpperAlpha == "ABCDEFGHIJKLMNOPQRSTUVWXYZ"
LowerAlpha == "abcdefghijklmnopqrstuvwxyz"
Char(s, i) == SubSeq(s, i, i)

\* str.lower() of one character.
LowerChar(c) ==
    IF \E i \in 1..26 : Char(UpperAlpha, i) = c
    THEN Char(LowerAlpha, CHOOSE i \in 1..26 : Char(UpperAlpha, i) = c)
    ELSE c

RECURSIVE LowerFrom(_, _)
LowerFrom(s, i) == IF i > Len(s) THEN "" ELSE LowerChar(Char(s, i)) \o LowerFrom(s, i + 1)
\* str.lower()
lower(s) == LowerFrom(s, 1)

\* Python's `a in b` on strings: a is a substring of b.
In(a, b) ==
    \E i \in 1..(Len(b) - Len(a) + 1) : SubSeq(b, i, i + Len(a) - 1) = a

\* str.startswith
StartsWith(s, p) == Len(s) >= Len(p) /\ SubSeq(s, 1, Len(p)) = p

HexDigits == "0123456789abcdef"
RECURSIVE HexFrom(_, _)
HexFrom(data, i) ==
    IF i > Len(data) THEN ""
    ELSE Char(HexDigits, (data[i] \div 16) + 1) \o Char(HexDigits, (data[i] % 16) + 1)
         \o HexFrom(data, i + 1)
\* bytes.hex()
hex(data) == HexFrom(data, 1)

\* A variant that records str(e) alone in the except clause.
ProbeStatus_bare(response) ==
    IF raised(response) THEN response.msg
    ELSE IF ~isError(response) THEN "OK" ELSE "Error"

\* The status of one probe: "OK"/"Error" from isError(), f"Exception: {e}"
\* from the except clause.
ProbeStatus(response) ==
    IF raised(response) THEN "Exception: " \o response.msg
    ELSE IF ~isError(response) THEN "OK" ELSE "Error"

\* ------------------------------------------------ modbus_toolkit.py
\* One entry of a scan result list.
ProbeResult(ip, type, addr, values, status) ==
    [Host |-> ip, Type |-> type, Address |-> addr, Values |-> values, Status |-> status]

\* scan_registers(client, ip, start, end, step, reg_type). The client is its
\* device's answers: resps[i] answers the i-th read.
scan_registers(resps, ip, start, end, step, reg_type) ==
    LET addrs == Range(start, end, step)
    IN  [i \in 1..Len(addrs) |->
            LET response == resps[i]
                values == IF raised(response) \/ isError(response)
                          THEN << >> ELSE response.registers
            IN  ProbeResult(ip, reg_type, addrs[i], values, ProbeStatus(response))]

\* The reads scan_registers issues on the client, in order.
scan_registers_requests(start, end, step, reg_type) ==
    LET addrs == Range(start, end, step)
    IN  [i \in 1..Len(addrs) |->
            [fn |-> IF reg_type = "holding" THEN "read_holding_registers"
                    ELSE "read_input_registers",
             address |-> addrs[i], count |-> step]]

\* scan_coils(client, ip, start, end, step)
scan_coils(resps, ip, start, end, step) ==
    LET addrs == Range(start, end, step)
    IN  [i \in 1..Len(addrs) |->
            LET response == resps[i]
                values == IF raised(response) \/ isError(response)
                          THEN << >> ELSE response.bits
            IN  ProbeResult(ip, "coil", addrs[i], values, ProbeStatus(response))]

\* A variant whose loop ends at the first round whose write raised.
fuzz_registers_stop(resps, ip, count, iterations, rnd) ==
    LET bad == {i \in 1..iterations : raised(resps[i])}
        n == IF bad = {} THEN iterations
             ELSE CHOOSE i \in bad : \A j \in bad : i <= j
    IN  [i \in 1..n |->
            ProbeResult(ip, "fuzz_register", rnd[i].addr, rnd[i].values, ProbeStatus(resps[i]))]

\* fuzz_registers(client, ip, count, iterations). rnd[i] holds the draws of
\* round i: addr = random.randint(0, 120) and count values random.randint(0, 65535).
fuzz_registers(resps, ip, count, iterations, rnd) ==
    [i \in 1..iterations |->
        ProbeResult(ip, "fuzz_register", rnd[i].addr, rnd[i].values, ProbeStatus(resps[i]))]

\* The writes fuzz_registers issues on the client, in order.
fuzz_registers_requests(iterations, rnd) ==
    [i \in 1..iterations |->
        [fn |-> "write_registers", address |-> rnd[i].addr, values |-> rnd[i].values]]

\* The bytes banner_grab sends.
BannerFrame == <<0, 0, 0, 6, 1, 3, 0, 0, 0, 1>>

\* banner_grab(ip, port). net is what the raw socket does: create_connection,
\* send and recv each succeed or raise. sock is the socket's state when the
\* function returns: s.close() runs only on the path where nothing raised.
banner_grab(ip, port, net) ==
    IF net.connect = "raise"
    THEN [ret |-> None, sock |-> "none", port |-> port, sent |-> << >>]
    ELSE IF net.send = "raise"
    THEN [ret |-> None, sock |-> "open", port |-> port, sent |-> << >>]
    ELSE IF net.recv.kind = "raise"
    THEN [ret |-> None, sock |-> "open", port |-> port, sent |-> BannerFrame]
    ELSE [ret |-> PyStr(hex(net.recv.data)), sock |-> "closed", port |-> port,
          sent |-> BannerFrame]

\* str(patterns): the text of the list, kept as the list it prints.
StrOf(x) == [py |-> "str", repr |-> x]

\* A stricter variant: the record's status follows the register sample.
fallback_fingerprint_strict(resps, ip, net) ==
    LET patterns == scan_registers(resps, ip, FallbackStart, FallbackEnd, FallbackStep, "holding")
        banner == banner_grab(ip, DefaultPort, net).ret
    IN  [Host |-> ip, Type |-> "fallback_fingerprint",
         Status |-> IF \E i \in 1..Len(patterns) : patterns[i].Status = "OK"
                    THEN "OK" ELSE "Error",
         Banner |-> IF Truthy(banner) THEN banner.s ELSE "None",
         RegisterSample |-> StrOf(patterns)]

\* banner = banner_grab(ip) of fallback_fingerprint: the call names no port.
fallback_banner(ip, net) == banner_grab(ip, DefaultPort, net)

\* fallback_fingerprint(client, ip)
fallback_fingerprint(resps, ip, net) ==
    LET patterns == scan_registers(resps, ip, FallbackStart, FallbackEnd, FallbackStep, "holding")
        banner == fallback_banner(ip, net).ret
    IN  [Host |-> ip, Type |-> "fallback_fingerprint", Status |-> "OK",
         Banner |-> IF Truthy(banner) THEN banner.s ELSE "None",
         RegisterSample |-> StrOf(patterns)]

\* f"device_{obj_id}"
DeviceKey(obj_id) == "device_" \o ToString(obj_id)

\* The dict {**base, device_<id>: value ...} built from response.information,
\* a sequence of <<obj_id, value>> in the order the device sent them.
WithDeviceFields(base, information) ==
    LET keys == {DeviceKey(information[i][1]) : i \in 1..Len(information)}
        last(k) == CHOOSE i \in 1..Len(information) :
                      /\ DeviceKey(information[i][1]) = k
                      /\ \A j \in 1..Len(information) :
                            DeviceKey(information[j][1]) = k => j <= i
    IN  [k \in (DOMAIN base) \cup keys |->
            IF k \in keys THEN information[last(k)][2] ELSE base[k]]

\* fingerprint_device(client, ip) of modbus_toolkit.py. dev is the device:
\* dev.ident answers read_device_information, dev.holding the register reads,
\* dev.net the raw banner socket.
fingerprint_device(dev, ip) ==
    IF raised(dev.ident) THEN PyDict(fallback_fingerprint(dev.holding, ip, dev.net))
    ELSE IF isError(dev.ident) THEN PyDict(fallback_fingerprint(dev.holding, ip, dev.net))
    ELSE PyDict(WithDeviceFields([Host |-> ip, Type |-> "device_info", Status |-> "OK"],
                                 dev.ident.information))

\* -------------------------------------------- modbusrecon_toolkit.py
\* DEVICE_SIGNATURES, in its declared order: <<signature, label>>.
DEVICE_SIGNATURES ==
    << <<"Schneider Electric", "Schneider PLC">>,
       <<"Siemens", "Siemens S7">>,
       <<"WAGO", "WAGO Controller">>,
       <<"Mitsubishi", "Mitsubishi Electric PLC">>,
       <<"Modicon", "Modicon PLC">>,
       <<"Rockwell", "Allen-Bradley PLC">>,
       <<"Delta", "Delta PLC">> >>

\* The inner loop of identify_vendor over the table, from entry j, for one
\* value: the label of the first signature found in v, or None.
RECURSIVE ScanSignatures(_, _)
ScanSignatures(v, j) ==
    IF j > Len(DEVICE_SIGNATURES) THEN None
    ELSE IF In(lower(DEVICE_SIGNATURES[j][1]), lower(v))
         THEN PyStr(DEVICE_SIGNATURES[j][2])
         ELSE ScanSignatures(v, j + 1)

\* The outer loop of identify_vendor over info.items(), from field i.
RECURSIVE ScanFields(_, _)
ScanFields(info, i) ==
    IF i > Len(info) THEN "Unknown Device"
    ELSE LET hit == ScanSignatures(info[i][2], 1)
         IN  IF hit # None THEN hit.s ELSE ScanFields(info, i + 1)

\* identify_vendor(info)
identify_vendor(info) == ScanFields(info, 1)

\* fingerprint_device(client, ip, port) of modbusrecon_toolkit.py
recon_fingerprint_device(dev, ip, port) ==
    IF raised(dev.ident)
    THEN PyDict([Host |-> ip, Port |-> port, Type |-> "device_info",
                 Status |-> "Exception: " \o dev.ident.msg])
    ELSE IF isError(dev.ident) THEN None
    ELSE PyDict(WithDeviceFields(
                  [Host |-> ip, Port |-> port, Type |-> "device_info", Status |-> "OK"],
                  dev.ident.information)
                @@ [k \in {"Vendor"} |-> identify_vendor(dev.ident.information)])

\* ------------------------------------------------------------ state
VARIABLES
    prog,          \* which program runs: "toolkit" or "recon"
    args,          \* the parsed command line
    mpc,           \* where main() is
    ports,         \* recon: the parsed port range; toolkit: <<args.port>>
    futures,       \* scan_subnet: the hosts submitted so far, in order
    wq,            \* the executor's work queue
    w,             \* per host: the state of its check_modbus task
    fi,            \* scan_subnet: index of the next future whose result() is taken
    live_hosts,    \* scan_subnet: live_hosts
    pending,       \* scan_subnet: an exception is propagating out of the with block
    sweep_returned,\* scan_subnet has returned live_hosts
    targets,       \* main: targets
    ti,            \* main: index of the next target of the for loop
    all_results,   \* main: all_results
    visited,       \* per finished loop iteration: the target and what happened
    report,        \* main: what was handed to save_csv / save_html, None before
    call,          \* SpecFn: the function called and its inputs
    ret,           \* SpecFn: what it returned
    n_submitted,   \* SpecPool: tasks submitted
    n_started,     \* SpecPool: tasks a pool thread has started
    n_finished     \* SpecPool: tasks finished

vars == <<prog, args, mpc, ports, futures, wq, w, fi, live_hosts, pending,
          sweep_returned, targets, ti, all_results, visited, report, call, ret,
          n_submitted, n_started, n_finished>>

mainVars == <<prog, args, mpc, ports, futures, wq, w, fi, live_hosts, pending,
              sweep_returned, targets, ti, all_results, visited, report>>
fnVars == <<call, ret>>
poolVars == <<n_submitted, n_started, n_finished>>

\* ipaddress.IPv4Network(subnet): the network address as a 32-bit number and
\* the prefix length. The constructor accepts the string only when the bits of
\* the address below the prefix are zero.
Pow2(n) == IF n = 0 THEN 1 ELSE 2 ^ n
IPv4(a, b, c, d) == ((a * 256 + b) * 256 + c) * 256 + d
max_prefixlen == 32
num_addresses(net) == Pow2(max_prefixlen - net.prefixlen)
network_address(net) == net.address
broadcast_address(net) == net.address + num_addresses(net) - 1
ValidNetwork(net) ==
    /\ net.prefixlen \in 0..max_prefixlen
    /\ net.address % num_addresses(net) = 0

\* A variant that leaves out the first and the last address at every prefix length.
ipv4_hosts_strict(net) ==
    Range(network_address(net) + 1, broadcast_address(net), 1)

\* IPv4Network.hosts(): the addresses strictly between the network and the
\* broadcast address; a /31 network gives both of its addresses and a /32
\* network its single address.
ipv4_hosts(net) ==
    IF net.prefixlen = max_prefixlen - 1
    THEN Range(network_address(net), broadcast_address(net) + 1, 1)
    ELSE IF net.prefixlen = max_prefixlen
    THEN <<network_address(net)>>
    ELSE Range(network_address(net) + 1, broadcast_address(net), 1)

\* ------------------------------------------------------ addresses
\* str(ip) of the h-th address of 10.0.0.0/24.
StrIp(h) == "10.0.0." \o ToString(h)

\* ipaddress.IPv4Network(subnet).hosts() for a subnet with n usable hosts
\* at 10.0.0.0: their host numbers, ascending.
hosts(subnet) == [i \in 1..subnet.n |-> i]

\* The hosts the list comprehension of scan_subnet submits, in order.
SubmitOrder_short(subnet) == SubSeq(hosts(subnet), 1, subnet.n - 1)
SubmitOrder(subnet) == hosts(subnet)

\* ------------------------------------------------------ port range
Digits == "0123456789"
DigitVal(c) == (CHOOSE i \in 1..10 : Char(Digits, i) = c) - 1
RECURSIVE IntFrom(_, _, _)
IntFrom(s, i, acc) ==
    IF i > Len(s) THEN acc ELSE IntFrom(s, i + 1, acc * 10 + DigitVal(Char(s, i)))
\* int(s) for a string of decimal digits
int(s) == IntFrom(s, 1, 0)

\* main of modbusrecon_toolkit.py, "Parse port range"
ParsePortRange(port_range) ==
    IF In("-", port_range)
    THEN LET k == CHOOSE i \in 1..Len(port_range) : Char(port_range, i) = "-"
             start == int(SubSeq(port_range, 1, k - 1))
             end == int(SubSeq(port_range, k + 1, Len(port_range)))
         IN  Range(start, end + 1, 1)
    ELSE <<int(port_range)>>

\* ------------------------------------------------------ inputs of a run
PortRanges == {"502", "502-503"}
Subnets == {[py |-> "net", n |-> n] : n \in 1..NumHosts}

\* --port of modbus_toolkit.py: the default and one other port.
Ports == {DefaultPort, DefaultPort + 1}
\* --report: absent, or one of the choices of either program.
Reports == {None, PyStr("csv"), PyStr("html")}

ArgSets ==
    {[subnet |-> sn, ip |-> ip, port |-> pt, port_range |-> pr, fingerprint |-> fp,
      skip_unresponsive |-> sk, report |-> rp] :
        sn \in Subnets \cup {None}, ip \in {None, PyStr(StrIp(1))}, pt \in Ports,
        pr \in PortRanges, fp \in BOOLEAN, sk \in BOOLEAN, rp \in Reports}

\* The devices a session of the main loop can meet.
MainDevices ==
    { [ident |-> [kind |-> "ok",
                  information |-> << <<0, "Siemens AG">>, <<1, "S7-1200">> >>],
       holding |-> [i \in 1..5 |-> ErrorResp],
       net |-> [connect |-> "raise", send |-> "ok", recv |-> [kind |-> "raise"]]],
      [ident |-> ErrorResp,
       holding |-> [i \in 1..5 |-> ErrorResp],
       net |-> [connect |-> "ok", send |-> "ok", recv |-> [kind |-> "ok", data |-> <<0, 1>>]]],
      [ident |-> [kind |-> "raise", msg |-> "timed out"],
       holding |-> [i \in 1..5 |->
                      IF i = 2 THEN ErrorResp
                      ELSE IF i = 3 THEN [kind |-> "raise", msg |-> "timed out"]
                      ELSE [kind |-> "ok", registers |-> <<0, 0>>]],
       net |-> [connect |-> "ok", send |-> "ok", recv |-> [kind |-> "raise"]]] }

\* The frame of one check_modbus task.
IdleWorker ==
    [pc |-> "idle", pi |-> 1, conns |-> {}, ret |-> None, exc |-> FALSE,
     calls |-> 0, answered |-> {}, skip_logs |-> FALSE]

Op(name, port) == [op |-> name, port |-> port]
LogEntry(level, what, port) == [level |-> level, what |-> what, port |-> port]

FnIdle == call = [fn |-> "none"] /\ ret = None
PoolIdle == n_submitted = 0 /\ n_started = 0 /\ n_finished = 0

Init ==
    /\ prog \in {"toolkit", "recon"}
    /\ args \in ArgSets
    /\ prog = "toolkit" => args.port_range = "502" /\ args.report # PyStr("csv")
    /\ prog = "recon" => args.port = DefaultPort
    /\ mpc = "start"
    /\ ports = << >>
    /\ futures = << >>
    /\ wq = << >>
    /\ w = [h \in 1..NumHosts |-> IdleWorker]
    /\ fi = 1
    /\ live_hosts = << >>
    /\ pending = FALSE
    /\ sweep_returned = FALSE
    /\ targets = << >>
    /\ ti = 1
    /\ all_results = << >>
    /\ visited = << >>
    /\ report = None
    /\ FnIdle
    /\ PoolIdle

\* ------------------------------------------------------ main: start
\* A variant that goes for the first host when no target is named.
ToolkitStart_default ==
    /\ prog = "toolkit" /\ mpc = "start"
    /\ ports' = <<args.port>>
    /\ IF args.subnet # None
       THEN /\ mpc' = "submit"
            /\ UNCHANGED targets
       ELSE /\ mpc' = "loop"
            /\ targets' = <<PyStr(StrIp(1))>>
    /\ UNCHANGED <<prog, args, report, futures, wq, w, fi, live_hosts, pending,
                   sweep_returned, ti, all_results, visited, fnVars, poolVars>>

\* main of modbus_toolkit.py, from parse_args to the choice of targets.
ToolkitStart ==
    /\ prog = "toolkit" /\ mpc = "start"
    /\ ports' = <<args.port>>
    /\ IF args.subnet # None
       THEN /\ mpc' = "submit"
            /\ UNCHANGED targets
       ELSE IF args.ip # None
       THEN /\ mpc' = "loop"
            /\ targets' = <<args.ip>>
       ELSE /\ mpc' = "exit1"
            /\ UNCHANGED targets
    /\ UNCHANGED <<prog, args, report, futures, wq, w, fi, live_hosts, pending, sweep_returned,
                   ti, all_results, visited, fnVars, poolVars>>

\* main of modbusrecon_toolkit.py, from parse_args to the choice of targets.
ReconStart ==
    /\ prog = "recon" /\ mpc = "start"
    /\ ports' = ParsePortRange(args.port_range)
    /\ IF args.subnet = None /\ args.ip = None
       THEN /\ mpc' = "exit1"
            /\ UNCHANGED targets
       ELSE IF args.subnet # None
       THEN /\ mpc' = "submit"
            /\ UNCHANGED targets
       ELSE /\ mpc' = "loop"
            /\ targets' = <<PyTuple(args.ip.s, ParsePortRange(args.port_range)[1])>>
    /\ UNCHANGED <<prog, args, report, futures, wq, w, fi, live_hosts, pending, sweep_returned,
                   ti, all_results, visited, fnVars, poolVars>>

\* ------------------------------------------------------ scan_subnet
\* ThreadPoolExecutor(max_workers=50): a queued task starts when fewer than
\* max_workers tasks are running.
SlotFree_wide(running) == running <= max_workers
SlotFree(running) == running < max_workers

Running == {h \in 1..NumHosts : w[h].pc \in {"connect", "read"}}

\* executor.submit(check_modbus, ...) for the next host of the comprehension;
\* after the last one the for loop over the futures begins.
Submit ==
    /\ mpc = "submit"
    /\ LET order == SubmitOrder(args.subnet)
       IN  IF Len(futures) < Len(order)
           THEN LET h == order[Len(futures) + 1]
                IN  /\ futures' = Append(futures, h)
                    /\ wq' = Append(wq, h)
                    /\ w' = [w EXCEPT ![h].pc = "queued"]
                    /\ UNCHANGED mpc
           ELSE /\ mpc' = IF futures = << >> THEN "join" ELSE "collect"
                /\ UNCHANGED <<futures, wq, w>>
    /\ UNCHANGED <<prog, args, report, ports, fi, live_hosts, pending, sweep_returned, targets,
                   ti, all_results, visited, fnVars, poolVars>>

\* A pool thread takes the task at the head of the work queue and calls
\* check_modbus.
WorkerStart(h) ==
    /\ wq # << >> /\ Head(wq) = h
    /\ SlotFree(Cardinality(Running))
    /\ wq' = Tail(wq)
    /\ w' = [w EXCEPT ![h].pc = "connect", ![h].pi = 1, ![h].calls = @ + 1,
                      ![h].skip_logs = (prog = "recon" /\ args.skip_unresponsive)]
    /\ UNCHANGED <<prog, args, report, mpc, ports, futures, fi, live_hosts, pending,
                   sweep_returned, targets, ti, all_results, visited, fnVars, poolVars>>

\* check_modbus(ip, port) of modbus_toolkit.py up to the connect.
toolkit_connect(wr, port, o) ==
    IF o = "raise" THEN [wr EXCEPT !.pc = "done", !.exc = TRUE]
    ELSE IF o = "refused" THEN [wr EXCEPT !.pc = "done", !.ret = None]
    ELSE [wr EXCEPT !.pc = "read", !.conns = @ \cup {port}]

\* check_modbus(ip, port) of modbus_toolkit.py from read_coils(0, 1) on.
toolkit_read(wr, h, port, r) ==
    IF ~raised(r) /\ ~isError(r)
    THEN [wr EXCEPT !.pc = "done", !.ret = PyStr(StrIp(h))]
    ELSE [wr EXCEPT !.pc = "done", !.ret = None, !.conns = @ \ {port}]

\* A variant where a port that failed ends the scan of the host.
recon_next_port_stop(wr, prts) == [wr EXCEPT !.pc = "done", !.ret = None]

\* check_modbus of modbusrecon_toolkit.py: the for loop goes on to the next
\* port, or the function returns None after the last one.
recon_next_port(wr, prts) ==
    IF wr.pi < Len(prts) THEN [wr EXCEPT !.pc = "connect", !.pi = @ + 1]
    ELSE [wr EXCEPT !.pc = "done", !.ret = None]

\* A variant that gives up on the host at the first port that fails to connect
\* when failures are not logged.
recon_connect_quiet(wr, prts, o) ==
    IF o = "ok" THEN [wr EXCEPT !.pc = "read", !.conns = @ \cup {prts[wr.pi]}]
    ELSE IF wr.skip_logs THEN [wr EXCEPT !.pc = "done", !.ret = None]
    ELSE recon_next_port(wr, prts)

\* check_modbus(ip, ports, skip_logs) of modbusrecon_toolkit.py: the connect
\* of one loop iteration.
recon_connect(wr, prts, o) ==
    IF o = "ok" THEN [wr EXCEPT !.pc = "read", !.conns = @ \cup {prts[wr.pi]}]
    ELSE recon_next_port(wr, prts)

\* ... and the rest of the iteration, from read_coils(address=0, count=1).
recon_read(wr, h, prts, r) ==
    LET port == prts[wr.pi]
    IN  IF raised(r) THEN recon_next_port(wr, prts)
        ELSE IF ~isError(r)
        THEN [wr EXCEPT !.pc = "done", !.ret = PyTuple(StrIp(h), port),
                        !.conns = @ \ {port}]
        ELSE recon_next_port([wr EXCEPT !.conns = @ \ {port}], prts)

\* What one loop iteration of check_modbus of modbusrecon_toolkit.py does to
\* the outside: ops are the calls on its client and log what it hands to
\* logging, both in order. The error lines are written unless skip_logs.
LogError(skip_logs, what, port) ==
    IF skip_logs THEN << >> ELSE <<LogEntry("error", what, port)>>

recon_connect_events(wr, prts, o) ==
    LET port == prts[wr.pi]
    IN  [ops |-> <<Op("connect", port)>>,
         log |-> IF o = "ok" THEN << >>
                 ELSE LogError(wr.skip_logs, IF o = "refused" THEN "failed" ELSE "raised", port)]

recon_read_events(wr, prts, r) ==
    LET port == prts[wr.pi]
    IN  IF raised(r)
        THEN [ops |-> <<Op("read_coils", port)>>,
              log |-> LogError(wr.skip_logs, "raised", port)]
        ELSE [ops |-> <<Op("read_coils", port), Op("close", port)>>,
              log |-> IF isError(r) THEN << >>
                      ELSE <<LogEntry("info", "detected", port)>>]

WorkerConnect(h) ==
    /\ w[h].pc = "connect"
    /\ \E o \in ConnectOutcomes :
          w' = [w EXCEPT ![h] = IF prog = "toolkit"
                                THEN toolkit_connect(w[h], ports[1], o)
                                ELSE recon_connect(w[h], ports, o)]
    /\ UNCHANGED <<prog, args, report, mpc, ports, futures, wq, fi, live_hosts, pending,
                   sweep_returned, targets, ti, all_results, visited, fnVars, poolVars>>

\* The read of a task; answered notes the ports where the device answered
\* read_coils without error, whatever check_modbus makes of it.
WorkerRead(h) ==
    /\ w[h].pc = "read"
    /\ \E r \in CoilResponses(1) :
          LET next == IF prog = "toolkit"
                      THEN toolkit_read(w[h], h, ports[1], r)
                      ELSE recon_read(w[h], h, ports, r)
              seen == IF ~raised(r) /\ ~isError(r)
                      THEN w[h].answered \cup {ports[w[h].pi]}
                      ELSE w[h].answered
          IN  w' = [w EXCEPT ![h] = [next EXCEPT !.answered = seen]]
    /\ UNCHANGED <<prog, args, report, mpc, ports, futures, wq, fi, live_hosts, pending,
                   sweep_returned, targets, ti, all_results, visited, fnVars, poolVars>>

\* if result: live_hosts.append(result)
Collect_all(live, result) == Append(live, result)
Collect(live, result) == IF Truthy(result) THEN Append(live, result) ELSE live

\* One round of `for f in futures`: f.result() waits for the task, re-raises
\* what it raised, and otherwise hands its return value on.
TakeResult ==
    /\ mpc = "collect"
    /\ LET h == futures[fi]
       IN  /\ w[h].pc = "done"
           /\ IF w[h].exc
              THEN /\ pending' = TRUE
                   /\ mpc' = "join"
                   /\ UNCHANGED <<fi, live_hosts>>
              ELSE /\ live_hosts' = Collect(live_hosts, w[h].ret)
                   /\ fi' = fi + 1
                   /\ mpc' = IF fi = Len(futures) THEN "join" ELSE "collect"
                   /\ UNCHANGED pending
    /\ UNCHANGED <<prog, args, report, ports, futures, wq, w, sweep_returned, targets, ti,
                   all_results, visited, fnVars, poolVars>>

\* The end of the with block: shutdown(wait=True) waits for every submitted
\* task; then scan_subnet returns live_hosts, or the exception leaves main.
Join ==
    /\ mpc = "join"
    /\ \A i \in 1..Len(futures) : w[futures[i]].pc = "done"
    /\ IF pending
       THEN /\ mpc' = "crashed"
            /\ UNCHANGED <<targets, sweep_returned>>
       ELSE /\ mpc' = "loop"
            /\ targets' = live_hosts
            /\ sweep_returned' = TRUE
    /\ UNCHANGED <<prog, args, report, ports, futures, wq, w, fi, live_hosts, pending, ti,
                   all_results, visited, fnVars, poolVars>>

\* ------------------------------------------------------ main: the loop
\* The body of `for ip in targets` of modbus_toolkit.py after a successful
\* connect: the records all_results holds afterwards.
toolkit_fingerprint_step(results, fingerprint, dev, ip) ==
    IF fingerprint
    THEN LET info == fingerprint_device(dev, ip)
         IN  IF Truthy(info) THEN Append(results, info.d) ELSE results
    ELSE results

\* The calls fingerprint_device of modbus_toolkit.py makes on the network for a
\* client connected to port: the identification read and, when that failed,
\* the register reads of the fallback and the connection of its banner probe.
toolkit_fingerprint_ops(dev, ip, port) ==
    <<Op("read_device_information", port)>>
    \o (IF raised(dev.ident) \/ isError(dev.ident)
        THEN [i \in 1..Len(scan_registers_requests(FallbackStart, FallbackEnd,
                                                   FallbackStep, "holding"))
                 |-> Op("read_holding_registers", port)]
             \o <<Op("create_connection", fallback_banner(ip, dev.net).port)>>
        ELSE << >>)

\* The body of `for ip in targets` of modbus_toolkit.py: what all_results
\* holds afterwards, when connect had outcome o at device dev.
toolkit_iteration(results, ip, fingerprint, o, dev) ==
    IF o = "ok" THEN toolkit_fingerprint_step(results, fingerprint, dev, ip)
    ELSE results

\* ... and what the iteration does to the outside: the calls on the network
\* and the lines handed to logging. What connect raises is caught and logged
\* unless --skip-unresponsive.
toolkit_iteration_events(ip, port, fingerprint, skip_unresponsive, o, dev) ==
    IF o = "ok"
    THEN [ops |-> <<Op("connect", port)>>
                  \o (IF fingerprint THEN toolkit_fingerprint_ops(dev, ip, port) ELSE << >>)
                  \o <<Op("close", port)>>,
          log |-> <<LogEntry("info", "connected", port)>>]
    ELSE [ops |-> <<Op("connect", port)>>,
          log |-> IF o = "raise" THEN LogError(skip_unresponsive, "raised", port)
                  ELSE << >>]

\* The same for `for ip, port in targets` of modbusrecon_toolkit.py.
recon_fingerprint_step(results, fingerprint, dev, ip, port) ==
    IF fingerprint
    THEN LET result == recon_fingerprint_device(dev, ip, port)
         IN  IF Truthy(result) THEN Append(results, result.d) ELSE results
    ELSE results

\* One iteration of the for loop of main in modbus_toolkit.py. The whole body
\* is inside try/except Exception: a connect that raises is logged and the
\* loop goes on.
ToolkitIteration ==
    /\ prog = "toolkit" /\ mpc = "loop" /\ ti <= Len(targets)
    /\ \E o \in ConnectOutcomes, dev \in MainDevices :
          LET ip == targets[ti].s
          IN  /\ all_results' = toolkit_iteration(all_results, ip, args.fingerprint, o, dev)
              /\ visited' = Append(visited, [target |-> targets[ti], connected |-> o = "ok"])
    /\ ti' = ti + 1
    /\ UNCHANGED <<prog, args, report, mpc, ports, futures, wq, w, fi, live_hosts, pending,
                   sweep_returned, targets, fnVars, poolVars>>

\* One iteration of the for loop of main in modbusrecon_toolkit.py. Nothing
\* catches what connect raises.
ReconIteration ==
    /\ prog = "recon" /\ mpc = "loop" /\ ti <= Len(targets)
    /\ \E o \in ConnectOutcomes, dev \in MainDevices :
          LET ip == targets[ti].t0
              port == targets[ti].t1
          IN  /\ all_results' = IF o = "ok"
                                THEN recon_fingerprint_step(all_results, args.fingerprint, dev, ip, port)
                                ELSE all_results
              /\ visited' = Append(visited, [target |-> targets[ti], connected |-> o = "ok"])
              /\ mpc' = IF o = "raise" THEN "crashed" ELSE "loop"
    /\ ti' = ti + 1
    /\ UNCHANGED <<prog, args, report, ports, futures, wq, w, fi, live_hosts, pending,
                   sweep_returned, targets, fnVars, poolVars>>

\* save_csv(filename, data) of modbusrecon_toolkit.py: the header is the key
\* set of the first record, and csv.DictWriter raises on a record that has a
\* key outside the header.
save_csv(data) ==
    [py |-> "report", writer |-> "save_csv", header |-> DOMAIN data[1], data |-> data,
     raised |-> \E i \in 1..Len(data) : ~(DOMAIN data[i] \subseteq DOMAIN data[1])]

\* save_html(filename, data) of either program: the header cells are the keys
\* of the first record, and every record is a row of its own values.
save_html(data) ==
    [py |-> "report", writer |-> "save_html", header |-> DOMAIN data[1], data |-> data,
     raised |-> FALSE]

\* The report main writes after the loop, None when it writes none.
\* modbus_toolkit.py: if all_results and args.report == "html".
\* modbusrecon_toolkit.py: if all_results and args.report, by format.
WriteReport(program, a, results) ==
    IF results = << >> \/ ~Truthy(a.report) THEN None
    ELSE IF program = "recon" /\ a.report = PyStr("csv") THEN save_csv(results)
    ELSE IF a.report = PyStr("html") THEN save_html(results)
    ELSE None

\* The for loop is exhausted: main writes the report, if any, and returns.
LoopEnd ==
    /\ mpc = "loop" /\ ti > Len(targets)
    /\ report' = WriteReport(prog, args, all_results)
    /\ mpc' = IF report' # None /\ report'.raised THEN "crashed" ELSE "exit0"
    /\ UNCHANGED <<prog, args, ports, futures, wq, w, fi, live_hosts, pending,
                   sweep_returned, targets, ti, all_results, visited, fnVars, poolVars>>

Next ==
    \/ ToolkitStart
    \/ ReconStart
    \/ Submit
    \/ \E h \in 1..NumHosts : WorkerStart(h)
    \/ \E h \in 1..NumHosts : WorkerConnect(h)
    \/ \E h \in 1..NumHosts : WorkerRead(h)
    \/ TakeResult
    \/ Join
    \/ ToolkitIteration
    \/ ReconIteration
    \/ LoopEnd

Spec == Init /\ [][Next]_vars

\* ------------------------------------------------------ claims on Spec
HostOf(t) == IF t.py = "str" THEN t.s ELSE t.t0

\* C1: no check_modbus task has finished while a client it opened is still
\* open.
C1_ClosedWhenTaskEnds ==
    \A h \in 1..NumHosts : w[h].pc = "done" => w[h].conns = {}

\* C2: once scan_subnet has returned, check_modbus was called exactly once
\* for every host of the subnet and for no other, every task has finished and
\* none is queued; and no host is ever probed twice.
C2_OncePerHostThenReturn ==
    /\ \A h \in 1..NumHosts : w[h].calls <= 1
    /\ sweep_returned =>
          /\ \A h \in 1..NumHosts :
                IF h \in 1..args.subnet.n
                THEN w[h].calls = 1 /\ w[h].pc = "done"
                ELSE w[h].calls = 0 /\ w[h].pc = "idle"
          /\ wq = << >>

C2_Witness ==
    /\ sweep_returned
    /\ args.subnet.n = NumHosts
    /\ NumHosts >= 2
    /\ \A h \in 1..NumHosts : w[h].calls = 1

\* C5: when fingerprinting is requested, all_results holds exactly one record
\* for every target the loop of main has connected to.
C5_OneRecordPerConnectedTarget ==
    args.fingerprint =>
        \A i \in 1..Len(visited) :
            visited[i].connected =>
                Cardinality({k \in 1..Len(all_results) :
                               all_results[k].Host = HostOf(visited[i].target)}) = 1

\* C6: a run never ends on one target's failure while other targets are left:
\* not in scan_subnet with results still to collect, not in the loop of main
\* with targets still to visit.
C6_FailureNeverAborts ==
    mpc = "crashed" => IF pending THEN fi >= Len(futures) ELSE ti > Len(targets)

\* The targets whose device answered read_coils(0, 1) without error.
AnsweredTargets ==
    UNION { { IF prog = "toolkit" THEN PyStr(StrIp(h)) ELSE PyTuple(StrIp(h), p) :
                p \in w[h].answered } : h \in 1..NumHosts }

\* C7: the list scan_subnet returns holds, once each, exactly the targets
\* whose connect succeeded and whose read_coils(0, 1) answered without error.
C7_LiveHostsExact ==
    sweep_returned =>
        /\ \A i, j \in 1..Len(live_hosts) : i # j => live_hosts[i] # live_hosts[j]
        /\ {live_hosts[i] : i \in 1..Len(live_hosts)} = AnsweredTargets

\* A 2-host subnet where exactly one host answered, on port 502, and the
\* returned list is that one target.
C7_Witness ==
    /\ sweep_returned
    /\ args.subnet.n = 2
    /\ Cardinality({h \in 1..2 : w[h].answered = {DefaultPort}}) = 1
    /\ Cardinality({h \in 1..2 : w[h].answered = {}}) = 1
    /\ Len(live_hosts) = 1

\* ------------------------------------------------------ SpecFn
\* One call of one probing function, on inputs drawn from the sets below.
PyList(items) == [py |-> "list", items |-> items]

\* What the raw socket of banner_grab can do; recv returns at most 1024 bytes.
RecvData == {d \in {<< >>, <<0, 1>>, <<0, 0, 0, 0, 0, 3, 1, 131, 2>>} : Len(d) <= RecvSize}
BannerNets ==
    {[connect |-> "raise", send |-> "ok", recv |-> [kind |-> "raise"]],
     [connect |-> "ok", send |-> "raise", recv |-> [kind |-> "raise"]],
     [connect |-> "ok", send |-> "ok", recv |-> [kind |-> "raise"]]}
    \cup {[connect |-> "ok", send |-> "ok", recv |-> [kind |-> "ok", data |-> d]] :
            d \in RecvData}

\* Values a device reports in its identification objects.
VendorValues ==
    {"Siemens AG", "SIEMENS", "schneider electric", "Modicon M340", "WAGO 750", "ACME"}
\* response.information with n objects, ids 0..n-1.
Informations ==
    UNION { {[i \in 1..n |-> <<i - 1, vs[i]>>] : vs \in [1..n -> VendorValues]} :
            n \in 0..MaxFields }
IdentResponses ==
    {[kind |-> "ok", information |-> inf] : inf \in Informations}
    \cup {ErrorResp} \cup Raises
FuzzRounds(count) ==
    {[addr |-> a, values |-> vs] : a \in {0, FuzzAddrMax}, vs \in [1..count -> {0, WordMax}]}

FnInit ==
    /\ prog \in {"toolkit", "recon"}
    /\ args = [subnet |-> None, ip |-> None, port |-> DefaultPort, port_range |-> "502",
               fingerprint |-> FALSE, skip_unresponsive |-> FALSE, report |-> None]
    /\ mpc = "idle"
    /\ ports = << >>
    /\ futures = << >>
    /\ wq = << >>
    /\ w = [h \in 1..NumHosts |-> IdleWorker]
    /\ fi = 1
    /\ live_hosts = << >>
    /\ pending = FALSE
    /\ sweep_returned = FALSE
    /\ targets = << >>
    /\ ti = 1
    /\ all_results = << >>
    /\ visited = << >>
    /\ report = None
    /\ FnIdle
    /\ PoolIdle

CallScanRegisters ==
    /\ prog = "toolkit" /\ call.fn = "none"
    /\ \E start \in 0..MaxStart, end \in 0..MaxEnd, step \in 1..MaxStep,
          reg_type \in {"holding", "input"} :
         \E resps \in [1..Len(Range(start, end, step)) -> RegisterResponses(step)] :
            /\ call' = [fn |-> "scan_registers", ip |-> StrIp(1), start |-> start,
                        end |-> end, step |-> step, reg_type |-> reg_type, resps |-> resps,
                        reqs |-> scan_registers_requests(start, end, step, reg_type)]
            /\ ret' = PyList(scan_registers(resps, StrIp(1), start, end, step, reg_type))
    /\ UNCHANGED <<mainVars, poolVars>>

CallScanCoils ==
    /\ prog = "toolkit" /\ call.fn = "none"
    /\ \E end \in 0..MaxEnd, step \in 1..MaxStep :
         \E resps \in [1..Len(Range(0, end, step)) -> CoilResponses(step)] :
            /\ call' = [fn |-> "scan_coils", ip |-> StrIp(1), start |-> 0, end |-> end,
                        step |-> step, resps |-> resps]
            /\ ret' = PyList(scan_coils(resps, StrIp(1), 0, end, step))
    /\ UNCHANGED <<mainVars, poolVars>>

CallFuzzRegisters ==
    /\ prog = "toolkit" /\ call.fn = "none"
    /\ \E count \in 0..MaxCount, iterations \in 0..MaxIter :
         \E rnd \in [1..iterations -> FuzzRounds(count)],
            resps \in [1..iterations -> WriteResponses] :
            /\ call' = [fn |-> "fuzz_registers", ip |-> StrIp(1), count |-> count,
                        iterations |-> iterations, rnd |-> rnd, resps |-> resps,
                        reqs |-> fuzz_registers_requests(iterations, rnd)]
            /\ ret' = PyList(fuzz_registers(resps, StrIp(1), count, iterations, rnd))
    /\ UNCHANGED <<mainVars, poolVars>>

CallBannerGrab ==
    /\ prog = "toolkit" /\ call.fn = "none"
    /\ \E net \in BannerNets, port \in {DefaultPort, DefaultPort + 1} :
            /\ call' = [fn |-> "banner_grab", ip |-> StrIp(1), port |-> port, net |-> net]
            /\ ret' = [py |-> "banner"] @@ banner_grab(StrIp(1), port, net)
    /\ UNCHANGED <<mainVars, poolVars>>

CallFallbackFingerprint ==
    /\ prog = "toolkit" /\ call.fn = "none"
    /\ \E net \in BannerNets,
          resps \in [1..Len(Range(FallbackStart, FallbackEnd, FallbackStep))
                     -> RegisterResponses(FallbackStep)] :
            /\ call' = [fn |-> "fallback_fingerprint", ip |-> StrIp(1),
                        dev |-> [ident |-> ErrorResp, holding |-> resps, net |-> net]]
            /\ ret' = PyDict(fallback_fingerprint(resps, StrIp(1), net))
    /\ UNCHANGED <<mainVars, poolVars>>

\* fingerprint_device of modbus_toolkit.py; the device's registers answer
\* alike at every window here, the mixed samples are CallFallbackFingerprint's.
CallFingerprintDevice ==
    /\ prog = "toolkit" /\ call.fn = "none"
    /\ \E ident \in IdentResponses, net \in BannerNets, r \in RegisterResponses(FallbackStep) :
         LET dev == [ident |-> ident, holding |-> [i \in 1..5 |-> r], net |-> net]
         IN  /\ call' = [fn |-> "fingerprint_device", ip |-> StrIp(1), dev |-> dev]
             /\ ret' = fingerprint_device(dev, StrIp(1))
    /\ UNCHANGED <<mainVars, poolVars>>

CallReconFingerprintDevice ==
    /\ prog = "recon" /\ call.fn = "none"
    /\ \E ident \in IdentResponses, port \in {DefaultPort, DefaultPort + 1} :
         LET dev == [ident |-> ident]
         IN  /\ call' = [fn |-> "recon_fingerprint_device", ip |-> StrIp(1),
                         port |-> port, dev |-> dev]
             /\ ret' = recon_fingerprint_device(dev, StrIp(1), port)
    /\ UNCHANGED <<mainVars, poolVars>>

CallIdentifyVendor ==
    /\ prog = "recon" /\ call.fn = "none"
    /\ \E info \in Informations :
            /\ call' = [fn |-> "identify_vendor", info |-> info]
            /\ ret' = PyStr(identify_vendor(info))
    /\ UNCHANGED <<mainVars, poolVars>>

\* check_modbus(ip, ports, skip_logs) of modbusrecon_toolkit.py run to its
\* return against a host that answers the connect and the read at the i-th
\* port as script[i] says: what it returns, the clients left open, the calls
\* it made and the lines it logged.
RECURSIVE check_modbus_run(_, _, _, _, _)
check_modbus_run(wr, h, prts, script, out) ==
    IF wr.pc = "connect"
    THEN LET o == script[wr.pi].connect
             ev == recon_connect_events(wr, prts, o)
         IN  check_modbus_run(recon_connect(wr, prts, o), h, prts, script,
                              [ops |-> out.ops \o ev.ops, log |-> out.log \o ev.log])
    ELSE IF wr.pc = "read"
    THEN LET r == script[wr.pi].read
             ev == recon_read_events(wr, prts, r)
         IN  check_modbus_run(recon_read(wr, h, prts, r), h, prts, script,
                              [ops |-> out.ops \o ev.ops, log |-> out.log \o ev.log])
    ELSE [result |-> wr.ret, conns |-> wr.conns, ops |-> out.ops, log |-> out.log]

recon_check_modbus(h, prts, skip_logs, script) ==
    check_modbus_run([IdleWorker EXCEPT !.pc = "connect", !.calls = 1,
                                        !.skip_logs = skip_logs],
                     h, prts, script, [ops |-> << >>, log |-> << >>])

\* The port ranges of the single calls: one, two and three ports.
FnPortRanges == PortRanges \cup {"502-504"}
PortScripts(n) == [1..n -> [connect : ConnectOutcomes, read : CoilResponses(1)]]

CallCheckModbus ==
    /\ prog = "recon" /\ call.fn = "none"
    /\ \E pr \in FnPortRanges, skip_logs \in BOOLEAN :
         \E script \in PortScripts(Len(ParsePortRange(pr))) :
            /\ call' = [fn |-> "check_modbus", h |-> 1, ports |-> ParsePortRange(pr),
                        skip_logs |-> skip_logs, script |-> script]
            /\ ret' = [py |-> "check"]
                       @@ recon_check_modbus(1, ParsePortRange(pr), skip_logs, script)
    /\ UNCHANGED <<mainVars, poolVars>>

\* The for loop of main in modbus_toolkit.py over targets, where the i-th
\* target answers the connect as script[i].o and is the device script[i].dev:
\* all_results afterwards, the calls made and the lines logged.
RECURSIVE toolkit_loop(_, _, _, _, _, _, _)
toolkit_loop(tgts, port, fingerprint, skip_unresponsive, script, i, out) ==
    IF i > Len(tgts) THEN out
    ELSE LET ev == toolkit_iteration_events(tgts[i], port, fingerprint, skip_unresponsive,
                                            script[i].o, script[i].dev)
         IN  toolkit_loop(tgts, port, fingerprint, skip_unresponsive, script, i + 1,
                          [results |-> toolkit_iteration(out.results, tgts[i], fingerprint,
                                                         script[i].o, script[i].dev),
                           ops |-> out.ops \o ev.ops, log |-> out.log \o ev.log])

TargetScripts(n) == [1..n -> [o : ConnectOutcomes, dev : MainDevices]]

CallToolkitLoop ==
    /\ prog = "toolkit" /\ call.fn = "none"
    /\ \E n \in 0..NumHosts, port \in Ports, fingerprint \in BOOLEAN,
          skip_unresponsive \in BOOLEAN :
         \E script \in TargetScripts(n) :
            /\ call' = [fn |-> "main_loop", targets |-> [i \in 1..n |-> StrIp(i)],
                        port |-> port, fingerprint |-> fingerprint,
                        skip_unresponsive |-> skip_unresponsive, script |-> script]
            /\ ret' = [py |-> "loop"]
                       @@ toolkit_loop([i \in 1..n |-> StrIp(i)], port, fingerprint,
                                       skip_unresponsive, script, 1,
                                       [results |-> << >>, ops |-> << >>, log |-> << >>])
    /\ UNCHANGED <<mainVars, poolVars>>

\* The networks drawn: every aligned block of at most MaxHostBits host bits in
\* the first 2^MaxHostBits + 1 addresses of 10.0.0.0/8 and of 10.0.1.0/24.
Networks ==
    {net \in [address : {base + k : base \in {IPv4(10, 0, 0, 0), IPv4(10, 0, 1, 0)},
                                     k \in 0..Pow2(MaxHostBits)},
              prefixlen : (max_prefixlen - MaxHostBits)..max_prefixlen] :
        ValidNetwork(net)}

CallHosts ==
    /\ call.fn = "none"
    /\ \E net \in Networks :
            /\ call' = [fn |-> "hosts", net |-> net]
            /\ ret' = PyList(ipv4_hosts(net))
    /\ UNCHANGED <<mainVars, poolVars>>

FnNext ==
    \/ CallScanRegisters
    \/ CallScanCoils
    \/ CallFuzzRegisters
    \/ CallBannerGrab
    \/ CallFallbackFingerprint
    \/ CallFingerprintDevice
    \/ CallReconFingerprintDevice
    \/ CallIdentifyVendor
    \/ CallHosts
    \/ CallCheckModbus
    \/ CallToolkitLoop

SpecFn == FnInit /\ [][FnNext]_vars

\* ------------------------------------------------------ claims on SpecFn
Failed(response) == isError(response) \/ raised(response)

\* C4: a record of fingerprint_device has type fallback_fingerprint when the
\* identification request answered with an error or raised, and type
\* device_info when it succeeded; each of the three outcomes yields a record.
C4_FallbackIffIdentFailed ==
    call.fn \in {"fingerprint_device", "recon_fingerprint_device"} =>
        /\ ret.py = "dict"
        /\ ret.d.Type = IF Failed(call.dev.ident) THEN "fallback_fingerprint"
                        ELSE "device_info"

\* The label of the first signature, in table order from entry j, that is a
\* case-insensitive substring of some value of info.
RECURSIVE TableOrderLabel(_, _)
TableOrderLabel(info, j) ==
    IF j > Len(DEVICE_SIGNATURES) THEN "Unknown Device"
    ELSE IF \E i \in 1..Len(info) : In(lower(DEVICE_SIGNATURES[j][1]), lower(info[i][2]))
         THEN DEVICE_SIGNATURES[j][2]
         ELSE TableOrderLabel(info, j + 1)

\* C8: identify_vendor returns the label of the first signature in table
\* order that matches any field value, so the order of the fields does not
\* change the label.
C8_TableOrderFirst ==
    call.fn = "identify_vendor" => ret.s = TableOrderLabel(call.info, 1)

IsHexString(s) == \A i \in 1..Len(s) : In(Char(s, i), HexDigits)

IsFallbackRecord ==
    /\ call.fn \in {"fallback_fingerprint", "fingerprint_device"}
    /\ ret.py = "dict"
    /\ ret.d.Type = "fallback_fingerprint"

\* C9: a fallback record has status OK whatever its register reads reported,
\* its register sample has one entry per window 0, 2, 4, 6, 8 in that order,
\* and its Banner is present and is the hex text of the bytes the banner
\* probe received or the marker "None".
C9_FallbackRecordShape ==
    IsFallbackRecord =>
        LET rec == ret.d
            sample == rec.RegisterSample.repr
            net == call.dev.net
        IN  /\ rec.Status = "OK"
            /\ Len(sample) = 5
            /\ \A i \in 1..Len(sample) : sample[i].Address = 2 * (i - 1)
            /\ "Banner" \in DOMAIN rec
            /\ \/ rec.Banner = "None"
               \/ /\ net.connect = "ok" /\ net.send = "ok" /\ net.recv.kind = "ok"
                  /\ rec.Banner = hex(net.recv.data)
                  /\ IsHexString(rec.Banner)

\* A fallback record whose five reads all failed and whose banner is hex text.
C9_Witness ==
    /\ IsFallbackRecord
    /\ \A i \in 1..5 : ret.d.RegisterSample.repr[i].Status # "OK"
    /\ \E i \in 1..5 : ret.d.RegisterSample.repr[i].Status = "Error"
    /\ \E i \in 1..5 : StartsWith(ret.d.RegisterSample.repr[i].Status, "Exception:")
    /\ ret.d.Status = "OK"
    /\ ret.d.Banner # "None"

ValidStatus(st) == st = "OK" \/ st = "Error" \/ StartsWith(st, "Exception:")

\* C10: every entry returned by scan_registers, scan_coils and fuzz_registers
\* and every record returned by the fingerprint functions has a Status, and
\* it is "OK", "Error" or a text beginning with "Exception:".
C10_StatusTag ==
    /\ call.fn \in {"scan_registers", "scan_coils", "fuzz_registers"} =>
          \A i \in 1..Len(ret.items) :
              /\ "Status" \in DOMAIN ret.items[i]
              /\ ValidStatus(ret.items[i].Status)
    /\ (/\ call.fn \in {"fingerprint_device", "recon_fingerprint_device",
                        "fallback_fingerprint"}
        /\ ret.py = "dict") =>
          /\ "Status" \in DOMAIN ret.d
          /\ ValidStatus(ret.d.Status)

\* A register scan whose windows met a success, an error answer and a raise.
C10_Witness ==
    /\ call.fn = "scan_registers"
    /\ \E i \in 1..Len(ret.items) : ret.items[i].Status = "OK"
    /\ \E i \in 1..Len(ret.items) : ret.items[i].Status = "Error"
    /\ \E i \in 1..Len(ret.items) : StartsWith(ret.items[i].Status, "Exception:")

\* ------------------------------------------------------ SpecPool
\* scan_subnet's executor with more hosts than threads. The tasks are
\* counted: n_started - n_finished of them are inside check_modbus.
PoolHosts == max_workers + ExtraHosts

PoolInit ==
    /\ prog \in {"toolkit", "recon"}
    /\ args = [subnet |-> [py |-> "net", n |-> PoolHosts], ip |-> None,
               port |-> DefaultPort, port_range |-> "502", fingerprint |-> FALSE,
               skip_unresponsive |-> FALSE, report |-> None]
    /\ mpc = "submit"
    /\ ports = <<DefaultPort>>
    /\ futures = << >>
    /\ wq = << >>
    /\ w = [h \in 1..NumHosts |-> IdleWorker]
    /\ fi = 1
    /\ live_hosts = << >>
    /\ pending = FALSE
    /\ sweep_returned = FALSE
    /\ targets = << >>
    /\ ti = 1
    /\ all_results = << >>
    /\ visited = << >>
    /\ report = None
    /\ FnIdle
    /\ PoolIdle

\* executor.submit for the next host.
PoolSubmit ==
    /\ mpc = "submit"
    /\ n_submitted < args.subnet.n
    /\ n_submitted' = n_submitted + 1
    /\ UNCHANGED <<mainVars, fnVars, n_started, n_finished>>

\* A pool thread takes the next queued task.
PoolStart ==
    /\ n_started < n_submitted
    /\ SlotFree(n_started - n_finished)
    /\ n_started' = n_started + 1
    /\ UNCHANGED <<mainVars, fnVars, n_submitted, n_finished>>

\* A running check_modbus returns or raises.
PoolFinish ==
    /\ n_finished < n_started
    /\ n_finished' = n_finished + 1
    /\ UNCHANGED <<mainVars, fnVars, n_submitted, n_started>>

\* Every future has resolved and the with block has ended: scan_subnet is over.
PoolReturn ==
    /\ mpc = "submit"
    /\ n_submitted = args.subnet.n
    /\ n_finished = n_submitted
    /\ mpc' = "loop"
    /\ UNCHANGED <<prog, args, report, ports, futures, wq, w, fi, live_hosts, pending,
                   sweep_returned, targets, ti, all_results, visited, fnVars, poolVars>>

PoolNext ==
    \/ PoolSubmit
    \/ PoolStart
    \/ PoolFinish
    \/ PoolReturn

SpecPool == PoolInit /\ [][PoolNext]_vars

\* C3: at most 50 check_modbus calls run at any moment, and the k-th task
\* for k > 50 has started only after at least k - 50 tasks have finished.
C3_AtMostFiftyRunning ==
    /\ n_started - n_finished <= 50
    /\ n_started > 50 => n_finished >= n_started - 50

\* The 51st task is running with 49 others, one task having finished, and a
\* further task is waiting in the queue.
C3_Witness ==
    /\ n_started = 51
    /\ n_finished = 1
    /\ n_submitted > n_started

\* ------------------------------------------------------ claims on SpecFn, continued
\* The window addresses of a sweep of [start, end) in steps of step.
WindowAddresses(start, end, step) ==
    {a \in start..(end - 1) : (a - start) % step = 0}

\* C16: scan_registers returns one entry per window address start, start+s,
\* ... below end, in ascending order, having asked for s registers at each; a
\* window whose read answered with an error or raised has status Error or
\* Exception and no values, and every later window is still read.
C16_OneResultPerWindow ==
    call.fn = "scan_registers" =>
        LET items == ret.items
            n == Len(items)
        IN  /\ n = Cardinality(WindowAddresses(call.start, call.end, call.step))
            /\ Len(call.reqs) = n
            /\ \A i \in 1..n :
                  /\ items[i].Address = call.start + (i - 1) * call.step
                  /\ items[i].Address \in WindowAddresses(call.start, call.end, call.step)
                  /\ call.reqs[i].address = items[i].Address
                  /\ call.reqs[i].count = call.step
                  /\ items[i].Type = call.reg_type
                  /\ isError(call.resps[i]) =>
                        items[i].Status = "Error" /\ items[i].Values = << >>
                  /\ raised(call.resps[i]) =>
                        StartsWith(items[i].Status, "Exception:") /\ items[i].Values = << >>
                  /\ ~Failed(call.resps[i]) =>
                        items[i].Status = "OK" /\ Len(items[i].Values) = call.step

\* A sweep from a non-zero start whose first window failed and whose later
\* window was read and answered.
C16_Witness ==
    /\ call.fn = "scan_registers"
    /\ call.start = 1 /\ call.step = 2 /\ call.end = 4
    /\ Len(ret.items) = 2
    /\ ret.items[1].Status = "Error"
    /\ ret.items[2].Status = "OK"

\* C17: fuzz_registers returns exactly iterations entries of type
\* fuzz_register, each with an address in 0..120 and exactly count values in
\* 0..65535, and issues exactly one write per round, of that address and those
\* values; a write answered with a protocol error has status Error, and a round
\* that failed or raised is followed by the remaining rounds.
C17_OneWritePerRound ==
    call.fn = "fuzz_registers" =>
        LET items == ret.items
        IN  /\ Len(items) = call.iterations
            /\ Len(call.reqs) = call.iterations
            /\ \A i \in 1..call.iterations :
                  /\ items[i].Type = "fuzz_register"
                  /\ items[i].Address \in 0..FuzzAddrMax
                  /\ Len(items[i].Values) = call.count
                  /\ \A k \in 1..call.count : items[i].Values[k] \in 0..WordMax
                  /\ call.reqs[i].fn = "write_registers"
                  /\ call.reqs[i].address = items[i].Address
                  /\ call.reqs[i].values = items[i].Values
                  /\ isError(call.resps[i]) => items[i].Status = "Error"
                  /\ raised(call.resps[i]) => StartsWith(items[i].Status, "Exception:")
                  /\ ~Failed(call.resps[i]) => items[i].Status = "OK"

\* Two rounds of two values each: the first write raised, the second was made
\* and answered.
C17_Witness ==
    /\ call.fn = "fuzz_registers"
    /\ call.count = 2 /\ call.iterations = 2
    /\ raised(call.resps[1])
    /\ Len(ret.items) = 2
    /\ ret.items[2].Status = "OK"
    /\ ret.items[1].Address = FuzzAddrMax
    /\ ret.items[2].Values = <<0, WordMax>>

\* The Modbus TCP layout of a read request: transaction id, protocol id and
\* length of two bytes each, unit id and function code of one byte each, start
\* address and register count of two bytes each. A field that reaches past the
\* end of the frame has no value, written -1.
FrameByte(frame, i) == IF i \in 1..Len(frame) THEN frame[i] ELSE -1
FrameWord(frame, i) ==
    IF i + 1 \in 1..Len(frame) THEN frame[i] * 256 + frame[i + 1] ELSE -1
DecodeReadRequest(frame) ==
    [transaction |-> FrameWord(frame, 1), protocol |-> FrameWord(frame, 3),
     length |-> FrameWord(frame, 5), unit |-> FrameByte(frame, 7),
     function |-> FrameByte(frame, 8), start |-> FrameWord(frame, 9),
     count |-> FrameWord(frame, 11)]

\* C18: the bytes banner_grab sends, decoded with the Modbus TCP layout, are
\* transaction id 0, protocol id 0, length 6, unit id 1, function code 3,
\* start address 0 and register count 1.
C18_BannerFrameDecodes ==
    (call.fn = "banner_grab" /\ ret.sent # << >>) =>
        DecodeReadRequest(ret.sent) =
            [transaction |-> 0, protocol |-> 0, length |-> 6, unit |-> 1,
             function |-> 3, start |-> 0, count |-> 1]

\* What both statements about the expansion of a network share: the addresses
\* come in ascending order and are addresses of the network.
HostsAscending(items) ==
    \A i \in 1..(Len(items) - 1) : items[i] < items[i + 1]
HostsInside(items, net) ==
    \A i \in 1..Len(items) :
        items[i] \in network_address(net)..broadcast_address(net)

\* C15 as stated: for every valid network, every prefix length up to /32
\* included, hosts() gives exactly the number of addresses minus two of them,
\* in ascending order, and neither the network nor the broadcast address.
C15_TotalMinusTwo ==
    call.fn = "hosts" =>
        /\ Len(ret.items) = num_addresses(call.net) - 2
        /\ HostsAscending(ret.items)
        /\ HostsInside(ret.items, call.net)
        /\ \A i \in 1..Len(ret.items) :
              /\ ret.items[i] # network_address(call.net)
              /\ ret.items[i] # broadcast_address(call.net)

\* C15, amended: for every valid network of prefix length at most 30, hosts()
\* gives exactly the number of addresses minus two of them, in ascending
\* order, and neither the network nor the broadcast address; for a /31 network
\* it gives both addresses of the network, in ascending order, and for a /32
\* network the one address of the network.
C15_UsableHosts ==
    call.fn = "hosts" =>
        /\ HostsAscending(ret.items)
        /\ HostsInside(ret.items, call.net)
        /\ call.net.prefixlen <= max_prefixlen - 2 =>
              /\ Len(ret.items) = num_addresses(call.net) - 2
              /\ \A i \in 1..Len(ret.items) :
                    /\ ret.items[i] # network_address(call.net)
                    /\ ret.items[i] # broadcast_address(call.net)
        /\ call.net.prefixlen = max_prefixlen - 1 =>
              ret.items = <<network_address(call.net), broadcast_address(call.net)>>
        /\ call.net.prefixlen = max_prefixlen =>
              ret.items = <<network_address(call.net)>>

\* The expansion of 10.0.1.0/29, six hosts, and the states where a /31 and a
\* /32 network were expanded are reached as well.
C15_Witness ==
    /\ call.fn = "hosts"
    /\ call.net = [address |-> IPv4(10, 0, 1, 0), prefixlen |-> 29]
    /\ Len(ret.items) = 6
    /\ ret.items[1] = IPv4(10, 0, 1, 1)
    /\ ret.items[6] = IPv4(10, 0, 1, 6)

\* The connects among a sequence of calls, and the port list a script answers at.
Connects(ops) == SelectSeq(ops, LAMBDA e : e.op = "connect")
Answering(script) ==
    {i \in DOMAIN script : script[i].connect = "ok" /\ ~Failed(script[i].read)}

\* C12: check_modbus tries the ports of the parsed range in ascending order
\* and stops at the first port that connects and answers read_coils(0, 1)
\* without error: it returns that port, the lowest answering one, makes no call
\* on a higher port, and returns one (host, port) pair at most; a port that
\* does not connect, answers with an error or raises is followed by the next
\* port, and with no answering port every port is tried and None is returned.
C12_FirstAnsweringPort ==
    call.fn = "check_modbus" =>
        LET prts == call.ports
            tried == Connects(ret.ops)
            live == Answering(call.script)
        IN  /\ \A i, j \in 1..Len(prts) : i < j => prts[i] < prts[j]
            /\ Len(tried) <= Len(prts)
            /\ \A k \in 1..Len(tried) : tried[k].port = prts[k]
            /\ IF live = {}
               THEN ret.result = None /\ Len(tried) = Len(prts)
               ELSE LET first == CHOOSE i \in live : \A j \in live : i <= j
                    IN  /\ ret.result = PyTuple(StrIp(call.h), prts[first])
                        /\ Len(tried) = first
                        /\ \A k \in 1..Len(ret.ops) : ret.ops[k].port <= prts[first]

\* Three ports: the first refuses the connection, the second answers, the
\* third would answer as well and is never called.
C12_Witness ==
    /\ call.fn = "check_modbus"
    /\ call.ports = <<502, 503, 504>>
    /\ call.script[1].connect = "refused"
    /\ Answering(call.script) = {2, 3}
    /\ ret.result = PyTuple(StrIp(1), 503)
    /\ Connects(ret.ops) = <<Op("connect", 502), Op("connect", 503)>>

\* The lines of a log by level.
ErrorLines(log) == SelectSeq(log, LAMBDA e : e.level = "error")
OtherLines(log) == SelectSeq(log, LAMBDA e : e.level # "error")

\* C11: the flag skip_logs / --skip-unresponsive decides only whether failures
\* are logged. Against the same answers of the network, check_modbus with the
\* flag and without it makes the same calls in the same order, leaves the same
\* clients open and returns the same value, and the loop of main in
\* modbus_toolkit.py makes the same calls and leaves the same records; the two
\* runs log the same lines but for the error lines, of which the run with the
\* flag logs none.
C11_FlagOnlyLogging ==
    /\ call.fn = "check_modbus" =>
          LET other == recon_check_modbus(call.h, call.ports, ~call.skip_logs, call.script)
          IN  /\ other.result = ret.result
              /\ other.ops = ret.ops
              /\ other.conns = ret.conns
              /\ OtherLines(other.log) = OtherLines(ret.log)
              /\ call.skip_logs => ErrorLines(ret.log) = << >>
    /\ call.fn = "main_loop" =>
          LET other == toolkit_loop(call.targets, call.port, call.fingerprint,
                                    ~call.skip_unresponsive, call.script, 1,
                                    [results |-> << >>, ops |-> << >>, log |-> << >>])
          IN  /\ other.results = ret.results
              /\ other.ops = ret.ops
              /\ OtherLines(other.log) = OtherLines(ret.log)
              /\ call.skip_unresponsive => ErrorLines(ret.log) = << >>

\* check_modbus with the flag set meets a port that refuses the connection and
\* then one that answers: it logs the detection only, where the run without the
\* flag logs the failure too, and has called both ports.
C11_Witness ==
    /\ call.fn = "check_modbus"
    /\ call.skip_logs
    /\ call.ports = <<502, 503>>
    /\ call.script[1].connect = "refused"
    /\ ret.result = PyTuple(StrIp(1), 503)
    /\ ret.log = <<LogEntry("info", "detected", 503)>>
    /\ ErrorLines(recon_check_modbus(call.h, call.ports, FALSE, call.script).log)
          = <<LogEntry("error", "failed", 502)>>
    /\ Connects(ret.ops) = <<Op("connect", 502), Op("connect", 503)>>

\* C19: every raw connection the banner probe of the fallback opens during the
\* loop of main in modbus_toolkit.py goes to the port of the session being
\* fingerprinted, the port of --port.
C19_BannerOnSessionPort ==
    call.fn = "main_loop" =>
        \A k \in 1..Len(ret.ops) :
            ret.ops[k].op = "create_connection" => ret.ops[k].port = call.port

\* ------------------------------------------------------ claims on Spec, continued
\* C13: every record handed to the report writer has the key set of the first
\* record.
C13_UniformKeys ==
    report # None =>
        \A i \in 1..Len(report.data) : DOMAIN report.data[i] = DOMAIN report.data[1]

\* C14: a run given neither --ip nor --subnet goes from its start to exit
\* code 1 and nowhere else: no task was submitted or started, no connect was
\* made, no target was visited, no record was made and no report written.
C14_NoTargetNoProbing ==
    (args.subnet = None /\ args.ip = None) =>
        /\ mpc \in {"start", "exit1"}
        /\ futures = << >> /\ wq = << >>
        /\ \A h \in 1..NumHosts : w[h] = IdleWorker
        /\ targets = << >> /\ ti = 1
        /\ visited = << >> /\ all_results = << >>
        /\ report = None

\* A run of either program without a target has exited with code 1.
C14_Witness ==
    /\ args.subnet = None /\ args.ip = None
    /\ mpc = "exit1"
    /\ args.fingerprint /\ args.report # None
    /\ report = None

====
